---- MODULE Spec2Model ----
(***************************************************************************)
(* Ambulance routing and dispatch: the shortest-path ETA helpers of        *)
(* routing.py and algorithm.py, the greedy selection of algorithm.py and   *)
(* the session state machine of app.py.                                    *)
(*                                                                         *)
(* Times are kept in integer milliseconds so that the float arithmetic of  *)
(* the source (minutes, seconds) is exact on the inputs used here.         *)
(* float("inf") is the record Inf; Python's None is None (for a route) or  *)
(* the index 0 (for a reference into a list).                              *)
(***************************************************************************)
EXTENDS Integers, Sequences, FiniteSets, TLC

VARIABLES G, session_state, button, ret, query, cycles

vars == <<G, session_state, button, ret, query, cycles>>

(***************************************************************************)
(* Bounds of the model and constants of the program.                       *)
(***************************************************************************)
MaxUnits == 2

speed_kmph == 40

default_speed_kph == 30

NumAmbulances == 3

\* The node identifiers of the model's graphs, and one that is in no graph.
AllNodes == {1, 2, 3, 4}

MissingNode == CHOOSE n \in 0..Cardinality(AllNodes) : n \notin AllNodes

None == <<>>

Inf == [fin |-> FALSE, v |-> 0]

Fin(x) == [fin |-> TRUE, v |-> x]

\* Mutant of Lt: t <= best_time.
LtOrEqual(a, b) == ~b.fin \/ (a.fin /\ a.v <= b.v)

\* t < best_time on floats, float("inf") included.
Lt(a, b) == a.fin /\ (~b.fin \/ a.v < b.v)

RECURSIVE SumSeq(_)
SumSeq(s) == IF s = <<>> THEN 0 ELSE Head(s) + SumSeq(Tail(s))

MinOf(S) == CHOOSE x \in S : \A y \in S : x <= y

(***************************************************************************)
(* Graph model: a networkx MultiDiGraph.  An edge is (u, v, key) with an   *)
(* attribute dictionary d whose keys are among length (m), speed_kph and   *)
(* travel_time (s).  Node n has coordinates x = 10 * n, y = 0.             *)
(***************************************************************************)
E12 == [u |-> 1, v |-> 2, key |-> 0, d |-> [length |-> 1000, speed_kph |-> 30]]

E21 == [u |-> 2, v |-> 1, key |-> 0, d |-> [length |-> 1000, speed_kph |-> 30]]

E23 == [u |-> 2, v |-> 3, key |-> 0, d |-> [length |-> 1000, speed_kph |-> 30]]

E32 == [u |-> 3, v |-> 2, key |-> 0, d |-> [length |-> 1000, speed_kph |-> 30]]

\* A direct road 1 -> 3 that is shorter than 1 -> 2 -> 3 but slower.
E13 == [u |-> 1, v |-> 3, key |-> 0, d |-> [length |-> 1500, speed_kph |-> 10]]

\* A parallel road 1 -> 3 with a precomputed travel time.
E13t == [u |-> 1, v |-> 3, key |-> 1,
         d |-> [length |-> 3000, speed_kph |-> 60, travel_time |-> 180]]

\* A parallel road 1 -> 2 without a speed attribute.
E12p == [u |-> 1, v |-> 2, key |-> 1, d |-> [length |-> 600]]

EdgePool == {E12, E21, E23, E32, E13, E13t, E12p}

Graph(N, E) == [nodes |-> N, edges |-> E]

\* The line graph 1 - 2 - 3 with 1000 m roads at 30 km/h.
LineGraph == Graph({1, 2, 3}, {E12, E21, E23, E32})

NodeX(n) == 10 * n

NodeY(n) == 0

\* dict.get(key, default)
Get(d, k, default) == IF k \in DOMAIN d THEN d[k] ELSE default

\* G.get_edge_data(u, v): the attribute dictionaries of the parallel edges.
EdgeData(g, u, v) == {e.d : e \in {x \in g.edges : x.u = u /\ x.v = v}}

(***************************************************************************)
(* nx.shortest_path(G, source, target, weight): Dijkstra over the cost     *)
(* min(attr.get(weight, 1)) of the parallel edges.  Which of several       *)
(* equally short paths it returns depends on adjacency order, so all of    *)
(* them are possible results.                                              *)
(***************************************************************************)
HopWeight(g, u, v, weight) == MinOf({Get(d, weight, 1) : d \in EdgeData(g, u, v)})

\* The successors of u: the nodes v with an edge u -> v.
Succ(g, u) == {e.v : e \in {x \in g.edges : x.u = u}}

\* The simple paths that extend p (a simple path) and end at t.
RECURSIVE Extend(_, _, _)
Extend(g, p, t) ==
    IF p[Len(p)] = t THEN {p}
    ELSE UNION {Extend(g, Append(p, n), t) :
                  n \in Succ(g, p[Len(p)]) \ {p[i] : i \in 1..Len(p)}}

SimplePaths(g, s, t) == Extend(g, <<s>>, t)

PathCost(g, p, weight) ==
    SumSeq([i \in 1..(Len(p) - 1) |-> HopWeight(g, p[i], p[i + 1], weight)])

ShortestPaths(g, s, t, weight) ==
    LET P    == SimplePaths(g, s, t)
        best == MinOf({PathCost(g, p, weight) : p \in P})
    IN  {p \in P : PathCost(g, p, weight) = best}

\* The exception nx.shortest_path raises, "none" when it returns a path.
ShortestPathRaises(g, s, t) ==
    IF s \notin g.nodes \/ t \notin g.nodes THEN "NodeNotFound"
    ELSE IF SimplePaths(g, s, t) = {} THEN "NetworkXNoPath"
    ELSE "none"

(***************************************************************************)
(* algorithm.route_eta_minutes                                             *)
(***************************************************************************)
\* nx.path_weight(G, route, "length") raises KeyError when a parallel edge
\* of a hop has no length.
PathWeightRaises(g, p) ==
    \E i \in 1..(Len(p) - 1) : \E d \in EdgeData(g, p[i], p[i + 1]) :
        "length" \notin DOMAIN d

PathWeight(g, p) ==
    SumSeq([i \in 1..(Len(p) - 1) |->
              MinOf({d.length : d \in EdgeData(g, p[i], p[i + 1])})])

\* time_min = (length_m / 1000) / speed_kmph * 60, in milliseconds
\* (one minute is 60000 ms, so time_ms = length_m * 3600 / speed_kmph).
EtaOfLength(length_m) == (length_m * 3600) \div speed_kmph

Unreachable == [eta |-> Inf, route |-> None]

\* The set of values route_eta_minutes(G, source, target) can return.
route_eta_minutes(g, source, target) ==
    IF ShortestPathRaises(g, source, target) # "none"
    THEN {Unreachable}
    ELSE {IF PathWeightRaises(g, route)
          THEN Unreachable
          ELSE [eta |-> Fin(EtaOfLength(PathWeight(g, route))), route |-> route] :
            route \in ShortestPaths(g, source, target, "length")}

(***************************************************************************)
(* routing.route_travel_time_seconds                                       *)
(***************************************************************************)
WeightOf(g) ==
    IF \E e \in g.edges : "travel_time" \in DOMAIN e.d THEN "travel_time" ELSE "length"

\* length / max(speed_ms, 1.0), in milliseconds.
LengthOverSpeed(d) ==
    LET length    == Get(d, "length", 0)
        speed_kph == Get(d, "speed_kph", default_speed_kph)
    IN  IF speed_kph = 0 THEN (length * 100000) \div 833
        ELSE IF speed_kph * 10 < 36 THEN length * 1000
        ELSE (length * 3600) \div speed_kph

\* The value appended to vals for one parallel edge, in milliseconds.
EdgeVal(d, weight) ==
    IF weight = "travel_time" THEN Get(d, "travel_time", 0) * 1000
    ELSE LengthOverSpeed(d)

RouteTime(g, route, weight) ==
    SumSeq([i \in 1..(Len(route) - 1) |->
              MinOf({EdgeVal(d, weight) : d \in EdgeData(g, route[i], route[i + 1])})])

\* The set of outcomes of route_travel_time_seconds(G, orig_node, dest_node):
\* exc is the exception that escapes it, "none" when it returns.
route_travel_time_seconds(g, orig_node, dest_node) ==
    LET weight == WeightOf(g)
        exc    == ShortestPathRaises(g, orig_node, dest_node)
    IN  IF exc # "none"
        THEN {[exc |-> exc, time_sec |-> Inf, route |-> None]}
        ELSE {[exc |-> "none", time_sec |-> Fin(RouteTime(g, route, weight)),
               route |-> route] :
                route \in ShortestPaths(g, orig_node, dest_node, weight)}

(***************************************************************************)
(* Standalone route queries: both helpers applied to a graph and a pair    *)
(* of node identifiers.                                                    *)
(***************************************************************************)
NoSession == [k \in {} |-> 0]

\* The script has not called select_ambulance_and_hospital yet.
NotRun == [run |-> FALSE]

RouteGraphs == {Graph({1, 2, 3}, E) : E \in SUBSET EdgePool}

NoQuery == [orig |-> MissingNode, dest |-> MissingNode, done |-> {},
            eta |-> Unreachable,
            tts |-> [exc |-> "none", time_sec |-> Inf, route |-> None]]

InitRoute ==
    /\ G \in RouteGraphs
    /\ \E a, b \in G.nodes \cup {MissingNode} :
          query = [NoQuery EXCEPT !.orig = a, !.dest = b]
    /\ session_state = NoSession
    /\ button = FALSE
    /\ ret = NotRun
    /\ cycles = <<>>

QueryEtaMinutes ==
    /\ "eta" \notin query.done
    /\ \E r \in route_eta_minutes(G, query.orig, query.dest) :
          query' = [query EXCEPT !.eta = r, !.done = @ \cup {"eta"}]
    /\ UNCHANGED <<G, session_state, button, ret, cycles>>

QueryTravelTime ==
    /\ "tts" \notin query.done
    /\ \E r \in route_travel_time_seconds(G, query.orig, query.dest) :
          query' = [query EXCEPT !.tts = r, !.done = @ \cup {"tts"}]
    /\ UNCHANGED <<G, session_state, button, ret, cycles>>

NextRoute == QueryEtaMinutes \/ QueryTravelTime

SpecRoute == InitRoute /\ [][NextRoute]_vars

(***************************************************************************)
(* routing.nearest_node: the node nearest to (lon, lat).  The inputs of    *)
(* the model are never equidistant from two nodes.                         *)
(***************************************************************************)
Dist2(n, lon, lat) ==
    (NodeX(n) - lon) * (NodeX(n) - lon) + (NodeY(n) - lat) * (NodeY(n) - lat)

nearest_node(g, lon, lat) ==
    CHOOSE n \in g.nodes : \A m \in g.nodes : Dist2(n, lon, lat) <= Dist2(m, lon, lat)

(***************************************************************************)
(* algorithm.select_ambulance_and_hospital.  best_amb and best_hosp are    *)
(* references into the lists: an index, 0 for None.                        *)
(***************************************************************************)
NoneTime == [none |-> TRUE]

\* return None, None, None, None, None, None
AllNone == [best_amb |-> 0, best_hosp |-> 0, route_to_inc |-> None,
            route_inc_hosp |-> None, best_time |-> NoneTime,
            best_hosp_time |-> NoneTime]

NoBest == [idx |-> 0, time |-> Inf, route |-> None]

\* One iteration of either loop: if t < best_time, take the candidate.
Better(best, i, r) ==
    IF Lt(r.eta, best.time) THEN [idx |-> i, time |-> r.eta, route |-> r.route]
    ELSE best

\* for amb in ambulances: the possible values of (best_amb, best_time,
\* best_route_to_inc) after the units i.. have been looked at.
RECURSIVE AmbLoop(_, _, _, _, _)
AmbLoop(g, ambulances, inc_node, i, best) ==
    IF i > Len(ambulances) THEN {best}
    ELSE UNION {AmbLoop(g, ambulances, inc_node, i + 1, Better(best, i, r)) :
                  r \in route_eta_minutes(g, ambulances[i].node, inc_node)}

\* for idx, row in hospitals_gdf.iterrows()
RECURSIVE HospLoop(_, _, _, _, _)
HospLoop(g, hospitals, inc_node, i, best) ==
    IF i > Len(hospitals) THEN {best}
    ELSE UNION {HospLoop(g, hospitals, inc_node, i + 1, Better(best, i, r)) :
                  r \in route_eta_minutes(g, inc_node,
                          nearest_node(g, hospitals[i].x, hospitals[i].y))}

\* The set of tuples select_ambulance_and_hospital can return.
select_ambulance_and_hospital(g, ambulances, incident, hospitals_gdf) ==
    LET inc_node == nearest_node(g, incident.lon, incident.lat)
    IN  UNION {IF a.idx = 0
               THEN {AllNone}
               ELSE {[best_amb |-> a.idx, best_hosp |-> h.idx,
                      route_to_inc |-> a.route, route_inc_hosp |-> h.route,
                      best_time |-> a.time, best_hosp_time |-> h.time] :
                        h \in HospLoop(g, hospitals_gdf, inc_node, 1, NoBest)} :
                 a \in AmbLoop(g, ambulances, inc_node, 1, NoBest)}

(***************************************************************************)
(* app.py                                                                  *)
(***************************************************************************)
\* dict[key] = value
Put(d, k, val) == [x \in DOMAIN d \cup {k} |-> IF x = k THEN val ELSE d[x]]

\* del dict[key]
Del(d, k) == [x \in DOMAIN d \ {k} |-> d[x]]

\* f"A{i+1}" for i in range(3)
AmbId(i) == "A" \o ToString(i)

\* The body of "if best_amb is not None" in the dispatch block.
MarkDispatched(ss, r) ==
    LET amb  == ss.ambulances[r.best_amb]
        name == IF r.best_hosp # 0
                THEN Get(ss.hospitals[r.best_hosp], "name", "Hospital")
                ELSE "Hospital"
        amb1 == Put(Put(Put(Put(Put(amb, "status", "dispatched"),
                                "route_to_inc", r.route_to_inc),
                            "route_to_hosp", r.route_inc_hosp),
                        "eta_to_inc_min", r.best_time),
                    "hospital_name", name)
        inc1 == Put(Put(ss.incident, "status", "assigned"), "assigned_to", amb.id)
    IN  Put(Put(Put(ss, "ambulances", [ss.ambulances EXCEPT ![r.best_amb] = amb1]),
                "incident", inc1),
            "assigned", TRUE)

\* Mutant of DispatchBlock: dispatch only when a hospital was found too.
DispatchBlockNeedsHospital(ss, r) ==
    IF r.best_amb # 0 /\ r.best_hosp # 0 THEN MarkDispatched(ss, r) ELSE ss

\* The session state after the dispatch block, given the tuple r returned
\* by select_ambulance_and_hospital.
DispatchBlock(ss, r) ==
    IF r.best_amb # 0 THEN MarkDispatched(ss, r) ELSE ss

\* The tuples the dispatch block can get for the session state ss.
Selections(g, ss) ==
    select_ambulance_and_hospital(g, ss.ambulances, ss.incident, ss.hospitals)

(***************************************************************************)
(* One dispatch cycle over an arbitrary unit list, incident and facility   *)
(* list.                                                                   *)
(***************************************************************************)
\* A 4-node graph: the edges among 1, 2, 3 plus the node 4, which has no road.
Graph4(E) == Graph(AllNodes, E)

AssignGraphs ==
    {LineGraph, Graph({1, 2, 3}, {}), Graph({1, 2, 3}, {E12, E21}),
     Graph({1, 2, 3}, {E12, E23}), Graph({1, 2, 3}, {E12, E21, E23, E32, E13}),
     Graph({1, 2, 3}, {E13, E32}), Graph({1, 2, 3}, {E12, E12p, E23, E13})}

Hosp2 == [name |-> "New Civil Hospital Surat", x |-> 21, y |-> 1]

Hosp3 == [name |-> "Kiran Hospital", x |-> 29, y |-> 2]

HospitalLists == {<<>>, <<Hosp2>>, <<Hosp3, Hosp2>>}

Statuses == {"available", "dispatched"}

\* Unit lists of at most MaxUnits units with distinct identifiers, in any
\* order, each at a node of the graph or at a node the graph does not have.
UnitLists(g) ==
    LET Units == [id : {AmbId(i) : i \in 1..MaxUnits},
                  node : g.nodes \cup {MissingNode}, status : Statuses]
    IN  {u \in UNION {[1..n -> Units] : n \in 0..MaxUnits} :
            \A i, j \in 1..Len(u) : i # j => u[i].id # u[j].id}

IncidentAt(n) ==
    [id |-> "I1", lon |-> NodeX(n), lat |-> NodeY(n), status |-> "unassigned"]

InitAssign ==
    /\ G \in AssignGraphs
    /\ \E u \in UnitLists(G), n \in G.nodes, h \in HospitalLists :
          session_state = [ambulances |-> u, incident |-> IncidentAt(n),
                           hospitals |-> h]
    /\ button = FALSE
    /\ ret = NotRun
    /\ query = NoQuery
    /\ cycles = <<>>

\* The dispatch block of app.py: "if 'assigned' not in st.session_state".
Dispatch ==
    /\ "assigned" \notin DOMAIN session_state
    /\ ret = NotRun
    /\ \E r \in Selections(G, session_state) :
          /\ ret' = r
          /\ session_state' = DispatchBlock(session_state, r)
    /\ UNCHANGED <<G, button, query, cycles>>

NextAssign == Dispatch

SpecAssign == InitAssign /\ [][NextAssign]_vars

(***************************************************************************)
(* The Streamlit script of app.py: every run of the script is one step.    *)
(* The map, the sidebar and the ETA tables (lines 64-218) only read the    *)
(* session state.                                                          *)
(***************************************************************************)
\* A one-way road from node 4.
E43 == [u |-> 4, v |-> 3, key |-> 0, d |-> [length |-> 2000, speed_kph |-> 30]]

AppGraphs == {Graph4(E) : E \in SUBSET {E12, E23, E43}}

\* load_hospitals_with_fallback: the five fixed hospitals, placed on the
\* model's plane.
FallbackHospitals ==
    << [name |-> "New Civil Hospital Surat", x |-> 21, y |-> 1],
       [name |-> "Kiran Hospital", x |-> 29, y |-> 2],
       [name |-> "Sunshine Global Hospital", x |-> 11, y |-> 1],
       [name |-> "Apple Hospital", x |-> 22, y |-> 3],
       [name |-> "Unique Hospital", x |-> 31, y |-> 2] >>

\* random.sample(nodes, 3): three distinct nodes, in any order.
Samples(g) ==
    {p \in [1..NumAmbulances -> g.nodes] :
        \A i, j \in 1..NumAmbulances : i # j => p[i] # p[j]}

\* reset_scenario(), with its random draws as parameters.
reset_scenario(ss, random_nodes, inc_node) ==
    LET ambulances == [i \in 1..NumAmbulances |->
                         [id |-> AmbId(i), node |-> random_nodes[i],
                          status |-> "available"]]
        s1 == Put(Put(Put(ss, "ambulances", ambulances),
                      "incident", IncidentAt(inc_node)),
                  "hospitals", FallbackHospitals)
    IN  IF "assigned" \in DOMAIN s1 THEN Del(s1, "assigned") ELSE s1

\* Mutant of AfterReset: reset_scenario() on every run.
AfterResetAlways(ss, pressed, random_nodes, inc_node) ==
    reset_scenario(ss, random_nodes, inc_node)

\* Lines 38-44: the reset button, then the first-run initialisation.
AfterReset(ss, pressed, random_nodes, inc_node) ==
    LET s1 == IF pressed THEN reset_scenario(ss, random_nodes, inc_node) ELSE ss
    IN  IF "ambulances" \notin DOMAIN s1
        THEN reset_scenario(s1, random_nodes, inc_node)
        ELSE s1

\* The session states one run of the script can reach before its dispatch
\* block; pressed is what st.button returned.
ResetOutcomes(g, ss, pressed) ==
    {AfterReset(ss, pressed, random_nodes, inc_node) :
        random_nodes \in Samples(g), inc_node \in g.nodes}

\* The dispatch block, lines 47-62, on the session state s2: the tuple now
\* held by the script and the session state it leaves.
DispatchOutcomes(g, s2, old_ret) ==
    IF "assigned" \notin DOMAIN s2
    THEN {[ret |-> r, ss |-> DispatchBlock(s2, r)] : r \in Selections(g, s2)}
    ELSE {[ret |-> old_ret, ss |-> s2]}

\* One run of the script.
ScriptOutcomes(g, ss, pressed, old_ret) ==
    UNION {DispatchOutcomes(g, s2, old_ret) : s2 \in ResetOutcomes(g, ss, pressed)}

\* A run of the script without the reset button.
Rerun ==
    /\ button' = FALSE
    /\ \E o \in ScriptOutcomes(G, session_state, FALSE, ret) :
          /\ ret' = o.ret
          /\ session_state' = o.ss
    /\ UNCHANGED <<G, query, cycles>>

\* A run of the script caused by pressing the reset button.
ResetButton ==
    /\ button' = TRUE
    /\ \E o \in ScriptOutcomes(G, session_state, TRUE, ret) :
          /\ ret' = o.ret
          /\ session_state' = o.ss
    /\ UNCHANGED <<G, query, cycles>>

Init ==
    /\ G \in AppGraphs
    /\ session_state = NoSession
    /\ button = FALSE
    /\ ret = NotRun
    /\ query = NoQuery
    /\ cycles = <<>>

Next == Rerun \/ ResetButton

Spec == Init /\ [][Next]_vars

(***************************************************************************)
(* Two dispatch cycles, for two incidents, over one unit list: each cycle  *)
(* calls select_ambulance_and_hospital and then runs the body of the       *)
(* dispatch block, in any interleaving.                                    *)
(***************************************************************************)
Cycles == {1, 2}

IncidentOf(c, n) == Put(IncidentAt(n), "id", "I" \o ToString(c))

\* Whether the unit amb has a path to the node n.
Reaches(g, amb, n) == amb.node \in g.nodes /\ SimplePaths(g, amb.node, n) # {}

\* The available units that can reach the incident node n.
Candidates(g, ambulances, n) ==
    {i \in 1..Len(ambulances) :
        ambulances[i].status = "available" /\ Reaches(g, ambulances[i], n)}

\* Exactly one available unit can reach either incident, and it reaches both.
OneSharedUnit(g, ambulances, n1, n2) ==
    /\ Cardinality(Candidates(g, ambulances, n1)) = 1
    /\ Candidates(g, ambulances, n1) = Candidates(g, ambulances, n2)

InitConc ==
    /\ G \in AssignGraphs
    /\ \E u \in UnitLists(G), n1, n2 \in G.nodes, h \in HospitalLists :
          /\ OneSharedUnit(G, u, n1, n2)
          /\ \A i \in 1..Len(u) : u[i].node \in G.nodes
          /\ session_state = [ambulances |-> u, hospitals |-> h]
          /\ cycles = [c \in Cycles |->
                         [pc |-> "select", ret |-> NotRun,
                          incident |-> IncidentOf(c, IF c = 1 THEN n1 ELSE n2)]]
    /\ button = FALSE
    /\ ret = NotRun
    /\ query = NoQuery

\* Cycle c calls select_ambulance_and_hospital for its incident.
Select(c) ==
    /\ cycles[c].pc = "select"
    /\ \E r \in select_ambulance_and_hospital(G, session_state.ambulances,
                   cycles[c].incident, session_state.hospitals) :
          cycles' = [cycles EXCEPT ![c].ret = r, ![c].pc = "mark"]
    /\ UNCHANGED <<G, session_state, button, ret, query>>

\* Cycle c runs the dispatch block on the tuple it got.
Mark(c) ==
    /\ cycles[c].pc = "mark"
    /\ LET s1 == DispatchBlock(Put(session_state, "incident", cycles[c].incident),
                               cycles[c].ret)
       IN  /\ session_state' = [session_state EXCEPT !.ambulances = s1.ambulances]
           /\ cycles' = [cycles EXCEPT ![c].incident = s1.incident, ![c].pc = "done"]
    /\ UNCHANGED <<G, button, ret, query>>

NextConc == \E c \in Cycles : Select(c) \/ Mark(c)

SpecConc == InitConc /\ [][NextConc]_vars

(***************************************************************************)
(* Properties of the dispatch cycle (SpecAssign).                          *)
(***************************************************************************)
\* The script has called select_ambulance_and_hospital.
Ran == ret # NotRun

\* The step in which the dispatch block runs.
DispatchStep == ret = NotRun /\ ret' # NotRun

IncNode(g, ss) == nearest_node(g, ss.incident.lon, ss.incident.lat)

\* The ETA of unit i to the incident (the same for every shortest route).
UnitEta(g, ss, i) ==
    (CHOOSE r \in route_eta_minutes(g, ss.ambulances[i].node, IncNode(g, ss)) :
        TRUE).eta

\* f"A{k}" -> k
IdRank(id) == CHOOSE k \in 1..(MaxUnits + NumAmbulances) : AmbId(k) = id

\* The available units with a finite ETA to the incident.
AvailableReaching(g, ss) ==
    {i \in 1..Len(ss.ambulances) :
        ss.ambulances[i].status = "available" /\ UnitEta(g, ss, i).fin}

\* Unit i is the minimum of (ETA, identifier) over the set S of units.
IsMinEtaThenId(g, ss, i, S) ==
    /\ i \in S
    /\ \A j \in S :
          \/ Lt(UnitEta(g, ss, i), UnitEta(g, ss, j))
          \/ /\ UnitEta(g, ss, i) = UnitEta(g, ss, j)
             /\ IdRank(ss.ambulances[i].id) <= IdRank(ss.ambulances[j].id)

\* C1: Assign returns the unit that is the minimum of (ETA, identifier) over
\* exactly the available units: never a unit with another status, never one
\* with a larger ETA than another available unit, and on equal ETA the one
\* with the lowest identifier whatever the order of the list.
C1_SelectsMinEtaAvailableLowestId ==
    [][DispatchStep =>
        IF AvailableReaching(G, session_state) = {}
        THEN ret'.best_amb = 0
        ELSE IsMinEtaThenId(G, session_state, ret'.best_amb,
                            AvailableReaching(G, session_state))]_vars

\* No unit of the list has a finite ETA to the incident.
NoFiniteEta(g, ss) ==
    \A i \in 1..Len(ss.ambulances) :
        \A r \in route_eta_minutes(g, ss.ambulances[i].node, IncNode(g, ss)) :
            ~r.eta.fin

\* C3: if no unit yields a finite ETA to the incident (an empty unit list
\* included), Assign returns no unit, no facility and no routes, and the
\* dispatch block leaves every unit and the incident as they were, the
\* incident unassigned.
C3_NoUnitsAvailable ==
    [][(DispatchStep /\ NoFiniteEta(G, session_state)) =>
        /\ ret' = AllNone
        /\ session_state' = session_state
        /\ session_state'.incident.status = "unassigned"]_vars

C3_Witness ==
    /\ ret = AllNone
    /\ Len(session_state.ambulances) >= 1
    /\ \E i \in 1..Len(session_state.ambulances) :
          /\ session_state.ambulances[i].status = "available"
          /\ session_state.ambulances[i].node \in G.nodes
    /\ session_state.incident.status = "unassigned"
    /\ "assigned" \notin DOMAIN session_state

\* No facility of the list can be reached from the incident node.
NoFacilityReachable(g, ss) ==
    \A k \in 1..Len(ss.hospitals) :
        SimplePaths(g, IncNode(g, ss),
                    nearest_node(g, ss.hospitals[k].x, ss.hospitals[k].y)) = {}

\* C4: if some unit has a finite ETA but no facility is reachable from the
\* incident, Assign returns the selected unit with its route and finite ETA,
\* no facility, no facility route and a facility ETA of +infinity, and the
\* dispatch block marks the unit dispatched and the incident assigned.
C4_UnitLegWithoutFacility ==
    [][(/\ DispatchStep
        /\ ~NoFiniteEta(G, session_state)
        /\ NoFacilityReachable(G, session_state)) =>
        /\ ret'.best_amb \in 1..Len(session_state.ambulances)
        /\ ret'.best_time.fin
        /\ ret'.route_to_inc # None
        /\ ret'.route_to_inc[1] = session_state.ambulances[ret'.best_amb].node
        /\ ret'.route_to_inc[Len(ret'.route_to_inc)] = IncNode(G, session_state)
        /\ ret'.best_hosp = 0
        /\ ret'.route_inc_hosp = None
        /\ ret'.best_hosp_time = Inf
        /\ session_state'.ambulances[ret'.best_amb].status = "dispatched"
        /\ session_state'.ambulances[ret'.best_amb].route_to_hosp = None
        /\ session_state'.incident.status = "assigned"
        /\ session_state'.incident.assigned_to =
              session_state.ambulances[ret'.best_amb].id]_vars

C4_Witness ==
    /\ Ran
    /\ ret.best_amb # 0
    /\ ret.best_hosp = 0
    /\ ret.best_hosp_time = Inf
    /\ Len(session_state.hospitals) >= 1
    /\ session_state.ambulances[ret.best_amb].status = "dispatched"
    /\ session_state.incident.status = "assigned"

\* C8: a unit whose node is not in the graph makes Assign report a malformed
\* request: it neither selects a unit nor returns NoUnitsAvailable.
C8_MissingNodeIsNotFound ==
    (/\ Ran
     /\ \E i \in 1..Len(session_state.ambulances) :
           session_state.ambulances[i].node \notin G.nodes) =>
        (ret.best_amb = 0 /\ ret # AllNone)

\* C9: on the line graph 1 - 2 - 3 (1000 m roads at 30 km/h) with one
\* available unit at 1, the incident at 3 and one facility at 2, the unit
\* ETA is 4 minutes via <<1, 2, 3>> and the facility ETA 2 minutes via
\* <<3, 2>>.
C9_LineGraphScenario ==
    (/\ Ran
     /\ G = LineGraph
     /\ Len(session_state.ambulances) = 1
     /\ session_state.ambulances[1].node = 1
     /\ session_state.ambulances[1].id = AmbId(1)
     /\ IncNode(G, session_state) = 3
     /\ session_state.hospitals = <<Hosp2>>) =>
        /\ ret.best_amb = 1
        /\ ret.best_time = Fin(4 * 60000)
        /\ ret.route_to_inc = <<1, 2, 3>>
        /\ ret.best_hosp = 1
        /\ ret.best_hosp_time = Fin(2 * 60000)
        /\ ret.route_inc_hosp = <<3, 2>>

(***************************************************************************)
(* Properties of the route queries (SpecRoute).                            *)
(***************************************************************************)
EtaDone == "eta" \in query.done

TtsDone == "tts" \in query.done

\* Both nodes of the query are in the graph and a directed path joins them.
QueryReachable ==
    /\ query.orig \in G.nodes
    /\ query.dest \in G.nodes
    /\ SimplePaths(G, query.orig, query.dest) # {}

\* C5: for two existing nodes without a directed path, route_eta_minutes and
\* route_travel_time_seconds both report an infinite cost and no route, and
\* neither raises.
C5_UnreachableIsAValue ==
    (/\ query.orig \in G.nodes
     /\ query.dest \in G.nodes
     /\ SimplePaths(G, query.orig, query.dest) = {}) =>
        /\ EtaDone => query.eta = Unreachable
        /\ TtsDone => /\ query.tts.exc = "none"
                      /\ ~query.tts.time_sec.fin
                      /\ query.tts.route = None

\* The travel-time cost of one edge: its travel time if it has one, else
\* its length over its speed (30 km/h when it has none), in milliseconds.
TravelCost(d) ==
    IF "travel_time" \in DOMAIN d THEN d.travel_time * 1000
    ELSE (d.length * 3600) \div Get(d, "speed_kph", default_speed_kph)

\* The summed cost of a route, the cheapest parallel edge on every hop.
RouteCost(g, p) ==
    SumSeq([i \in 1..(Len(p) - 1) |->
              MinOf({TravelCost(d) : d \in EdgeData(g, p[i], p[i + 1])})])

MinTravelTime(g, a, b) == MinOf({RouteCost(g, p) : p \in SimplePaths(g, a, b)})

\* C6: for a reachable pair the reported ETA is the minimum over all paths
\* of the summed travel-time cost, and the returned route attains it.
C6_MinimizesTravelTime ==
    QueryReachable =>
        LET best == MinTravelTime(G, query.orig, query.dest)
        IN  /\ EtaDone => /\ query.eta.eta = Fin(best)
                          /\ RouteCost(G, query.eta.route) = best
            /\ (TtsDone /\ query.tts.exc = "none") =>
                   /\ query.tts.time_sec = Fin(best)
                   /\ RouteCost(G, query.tts.route) = best

\* Some edges of the graph carry a travel time and others do not.
Mixed(g) ==
    /\ \E e \in g.edges : "travel_time" \in DOMAIN e.d
    /\ \E e \in g.edges : "travel_time" \notin DOMAIN e.d

\* The route uses an edge pair none of whose parallel edges has a travel time.
UsesEdgeWithoutTravelTime(g, p) ==
    \E i \in 1..(Len(p) - 1) :
        \A d \in EdgeData(g, p[i], p[i + 1]) : "travel_time" \notin DOMAIN d

\* C7: in a mixed graph every edge of the returned route contributes its own
\* cost to the reported ETA: its travel time if it has one, else its length
\* over its speed, never 0 or another constant.
C7_MixedGraphPerEdgeCost ==
    (Mixed(G) /\ QueryReachable) =>
        /\ (EtaDone /\ UsesEdgeWithoutTravelTime(G, query.eta.route)) =>
               query.eta.eta = Fin(RouteCost(G, query.eta.route))
        /\ (/\ TtsDone
            /\ query.tts.exc = "none"
            /\ UsesEdgeWithoutTravelTime(G, query.tts.route)) =>
               query.tts.time_sec = Fin(RouteCost(G, query.tts.route))

(***************************************************************************)
(* Properties of two concurrent dispatch cycles (SpecConc).                *)
(***************************************************************************)
AllDone == \A c \in Cycles : cycles[c].pc = "done"

\* Cycle c ended with a unit assigned to its incident.
Succeeded(c) ==
    /\ cycles[c].ret.best_amb # 0
    /\ cycles[c].incident.status = "assigned"

\* Cycle c ended with NoUnitsAvailable.
Failed(c) ==
    /\ cycles[c].ret = AllNone
    /\ cycles[c].incident.status = "unassigned"

\* C2: with one available unit able to reach both incidents, exactly one of
\* two concurrent cycles ends with the unit assigned and the other with
\* NoUnitsAvailable, and no unit is ever dispatched to two incidents.
C2_ExactlyOneCycleSucceeds ==
    /\ AllDone => \E c, o \in Cycles : c # o /\ Succeeded(c) /\ Failed(o)
    /\ \A c, o \in Cycles :
          (/\ c # o
           /\ "assigned_to" \in DOMAIN cycles[c].incident
           /\ "assigned_to" \in DOMAIN cycles[o].incident) =>
              cycles[c].incident.assigned_to # cycles[o].incident.assigned_to

(***************************************************************************)
(* Properties of the application's session (Spec).                         *)
(***************************************************************************)
\* The session holds an incident that is assigned.
Assigned(ss) == "incident" \in DOMAIN ss /\ ss.incident.status = "assigned"

DispatchedUnits(ss) ==
    {i \in 1..Len(ss.ambulances) : ss.ambulances[i].status = "dispatched"}

\* An assigned incident has exactly one dispatched unit, the one it names.
OneUnitPerIncident ==
    Assigned(session_state) =>
        /\ Cardinality(DispatchedUnits(session_state)) = 1
        /\ \A i \in DispatchedUnits(session_state) :
              session_state.ambulances[i].id = session_state.incident.assigned_to
        /\ "assigned" \in DOMAIN session_state

\* An unassigned incident has no dispatched unit.
UnassignedIsClean ==
    ("incident" \in DOMAIN session_state /\ ~Assigned(session_state)) =>
        /\ DispatchedUnits(session_state) = {}
        /\ "assigned_to" \notin DOMAIN session_state.incident

\* C10: once the incident is assigned, every run of the script without the
\* reset button leaves the incident and every unit (status and routes)
\* unchanged; an assigned incident has exactly one dispatched unit, the one
\* it is assigned to; only a reset replaces the units and the incident.
C10_DispatchIsIrreversible ==
    /\ [](OneUnitPerIncident /\ UnassignedIsClean)
    /\ [][(Assigned(session_state) /\ ~button') =>
            /\ session_state'.ambulances = session_state.ambulances
            /\ session_state'.incident = session_state.incident]_vars
    /\ [][("ambulances" \in DOMAIN session_state
           /\ session_state'.ambulances # session_state.ambulances) =>
            button' \/ ~Assigned(session_state)]_vars

C10_Witness ==
    /\ Assigned(session_state)
    /\ ~button
    /\ Cardinality(DispatchedUnits(session_state)) = 1
    /\ \E i \in 1..Len(session_state.ambulances) :
          session_state.ambulances[i].status = "available"

====
